---- MODULE Spec2Model ----
(***************************************************************************)
(* Verification model of the cimbar codec orchestration                    *)
(* (src/cimbar/cimbar.py) and of the palette calibration helper            *)
(* (src/cimbar/util/kmeans.py).                                            *)
(*                                                                         *)
(* Four specifications share the module, one per part of the program:      *)
(*   SpecCell   _decode_cell: the drift search of one cell                 *)
(*   SpecIter   decode_iter driven from main(): deskew, preprocess,        *)
(*              flood-fill loop, temporary directory                       *)
(*   SpecCodec  encode_iter/encode followed by decode on the unmodified    *)
(*              image (ecc = 0, fountain off)                              *)
(*   SpecKm     kmeans.__init__ / kmeans.update                            *)
(***************************************************************************)
EXTENDS Integers, Sequences, FiniteSets, TLC

\* ---------------------------------------------------------------- constants
TOTAL_SIZE == 1024
BITS_PER_SYMBOL == 4
BITS_PER_COLOR == 2
BITS_PER_OP == BITS_PER_SYMBOL + BITS_PER_COLOR
CELL_SIZE == 8
CELL_SPACING == CELL_SIZE + 1
CELLS_OFFSET == 8

\* ------------------------------------------------------------------- bounds
MaxPairs == 3
NumCells == 3
MaxCells == 8
MaxStripes == 4
MaxPartitions == 2
MaxPayload == 7
MaxClusters == 2
MaxPoints == 3
MaxUpdates == 2

VARIABLES
  \* _decode_cell
  cellpc, cin, tried, readings, best_distance, best_bits, best_dx, best_dy,
  best_bound, cret,
  \* main() -> decode_iter
  itin, itpc, tempdir, deskewCalls, dims, opened, should_preprocess, img,
  color_img, queue, seen, cur, hint, measured, classifyLog, updateLog, yielded,
  \* encode() then decode() on the unmodified image
  cdin, cdpc, canvasSize, tiles, emitted, wrotePos, decoding, widx, blocks,
  blockOf, output,
  \* kmeans
  kin, kpc, centers, labels, nupdates

cellVars == <<cellpc, cin, tried, readings, best_distance, best_bits, best_dx,
              best_dy, best_bound, cret>>
iterVars == <<itin, itpc, tempdir, deskewCalls, dims, opened, should_preprocess, img,
              color_img, queue, seen, cur, hint, measured, classifyLog, updateLog,
              yielded>>
codecVars == <<cdin, cdpc, canvasSize, tiles, emitted, wrotePos, decoding, widx, blocks,
               blockOf, output>>
kmVars == <<kin, kpc, centers, labels, nupdates>>
vars == <<cellVars, iterVars, codecVars, kmVars>>
notCell == <<iterVars, codecVars, kmVars>>
notIter == <<cellVars, codecVars, kmVars>>
notCodec == <<cellVars, iterVars, kmVars>>
notKm == <<cellVars, iterVars, codecVars>>

\* ------------------------------------------------------------ small helpers
Min2(a, b) == IF a <= b THEN a ELSE b

Pow2(n) == IF n = 0 THEN 1 ELSE IF n = 1 THEN 2 ELSE IF n = 2 THEN 4
           ELSE IF n = 3 THEN 8 ELSE IF n = 4 THEN 16 ELSE IF n = 5 THEN 32
           ELSE IF n = 6 THEN 64 ELSE IF n = 7 THEN 128 ELSE 256

\* ===================================================================== 
\* _decode_cell(ct, img, color_img, x, y, drift)
\* =====================================================================

\* The symbol classifier compares an 8x8 binarized tile with the reference
\* icons: its distance is a number of differing pixels.
MaxDistance == CELL_SIZE * CELL_SIZE
Distances == {0, 7, 8, 9, MaxDistance}
SymbolIds == {3, 12}
ColorIds == 0 .. (Pow2(BITS_PER_COLOR) - 1)

\* drift.pairs: an ordered neighbourhood, (0,0) first, expanding outward.
SearchOrder == << <<0, 0>>, <<-1, 0>>, <<0, 1>>, <<1, 0>>, <<0, -1>> >>
PairLists == { SubSeq(SearchOrder, 1, n) : n \in 1 .. Min2(MaxPairs, Len(SearchOrder)) }
             \cup { << <<1, 0>>, <<0, 0>> >>, << <<0, 0>>, <<0, 0>> >> }

CellInputs == [x : {CELLS_OFFSET, CELLS_OFFSET + CELL_SPACING}, y : {CELLS_OFFSET},
               driftx : {0, 1}, drifty : {0, -1}, pairs : PairLists]

NoResult == [bits |-> -1, dx |-> 0, dy |-> 0, distance |-> -1, box |-> <<0, 0, 0, 0>>,
             cropped |-> "none"]

InitCellVars ==
  /\ cellpc = "loop"
  /\ cin \in CellInputs
  /\ tried = 0
  /\ readings = << >>
  /\ best_distance = 1000
  /\ best_bits = 0
  /\ best_dx = 0
  /\ best_dy = 0
  /\ best_bound = FALSE
  /\ cret = NoResult

\* ct.decode_color(best_cell): the colour id, placed above the symbol bits.
decode_color(c) == c * Pow2(BITS_PER_SYMBOL)

\* The box handed to color_img.crop() for the winning offset (PIL boxes are
\* (left, upper, right, lower), right and lower exclusive).
ColorBox(testX, testY) ==
  <<testX + 1, testY + 1, testX + CELL_SIZE - 2, testY + CELL_SIZE - 2>>

BoxWidth(box) == box[3] - box[1]
BoxHeight(box) == box[4] - box[2]

LoopBreaksAtEight(min_distance) == min_distance <= 8

\* Whether the loop goes on after an offset measured min_distance.
LoopBreaks(min_distance) == min_distance < 8

\* Whether the offset just measured replaces the best one.
TakesBest(min_distance, newbest) == min_distance = newbest

\* One iteration of "for dx, dy in drift.pairs".
DecodeCellStep ==
  /\ UNCHANGED notCell
  /\ cellpc = "loop"
  /\ tried < Len(cin.pairs)
  /\ \E min_distance \in Distances, bits \in SymbolIds :
       LET dx == cin.pairs[tried + 1][1]
           dy == cin.pairs[tried + 1][2]
           newbest == Min2(min_distance, best_distance)
           take == TakesBest(min_distance, newbest)
       IN /\ readings' = Append(readings, [dx |-> dx, dy |-> dy, distance |-> min_distance,
                                          bits |-> bits])
          /\ tried' = tried + 1
          /\ best_distance' = newbest
          /\ best_bits' = IF take THEN bits ELSE best_bits
          /\ best_dx' = IF take THEN dx ELSE best_dx
          /\ best_dy' = IF take THEN dy ELSE best_dy
          /\ best_bound' = (best_bound \/ take)
          /\ cellpc' = IF LoopBreaks(min_distance) \/ tried + 1 = Len(cin.pairs)
                       THEN "crop" ELSE "loop"
  /\ UNCHANGED <<cin, cret>>

\* Lines after the loop: the colour crop and the return.  Reading best_dx
\* before any assignment raises UnboundLocalError.
DecodeCellReturn ==
  /\ UNCHANGED notCell
  /\ cellpc = "crop"
  /\ IF best_bound
     THEN \E c \in ColorIds :
            LET testX == cin.x + cin.driftx + best_dx
                testY == cin.y + cin.drifty + best_dy
            IN /\ cret' = [bits |-> best_bits + decode_color(c), dx |-> best_dx,
                           dy |-> best_dy, distance |-> best_distance,
                           box |-> ColorBox(testX, testY), cropped |-> "color_img"]
               /\ cellpc' = "returned"
     ELSE /\ cellpc' = "raised"
          /\ cret' = cret
  /\ UNCHANGED <<cin, tried, readings, best_distance, best_bits, best_dx, best_dy,
                 best_bound>>


\* =====================================================================
\* main() -> decode() -> decode_iter(src_image, dark, force_preprocess,
\*                                   deskew, auto_dewarp)
\* =====================================================================

get_deskew_params_early(level) == [deskew |-> level, auto_dewarp |-> (level >= 1)]

get_deskew_params(level) == [deskew |-> level, auto_dewarp |-> (level >= 2)]

\* Python truth value of the integer "deskew".
Truthy(n) == n # 0

PreprocessAfterDeskewInclusive(force, d) ==
  force \/ (d[1] <= TOTAL_SIZE \/ d[2] <= TOTAL_SIZE)

\* should_preprocess after line 116, given the dimensions the deskewer reported.
PreprocessAfterDeskew(force, d) ==
  force \/ (d[1] < TOTAL_SIZE \/ d[2] < TOTAL_SIZE)

\* _preprocess_for_decode(img): the sharpened grayscale copy.
_preprocess_for_decode(image) == [image EXCEPT !.sharpened = TRUE]

\* Image.open(file)
OpenedImage(file) == [file |-> file, sharpened |-> FALSE]
NoImage == [file |-> "none", sharpened |-> FALSE]

IterInputs == [level : 0 .. 2, force : BOOLEAN]
ReportedDims == {1000, TOTAL_SIZE, 1030} \X {1000, TOTAL_SIZE, 1030}

\* What _decode_cell returns to the loop.
CellResults == [bits : {21}, dx : {-1, 0, 1}, dy : {0}, distance : {0, 9}]
NoMeasure == [bits |-> 0, dx |-> 0, dy |-> 0, distance |-> -1]

\* FloodDecodeOrder over a one-row data area of NumCells cells: breadth
\* first from the corners, each cell carrying the drift of the neighbour
\* that reached it.
Cells == 0 .. (NumCells - 1)
Corners == IF NumCells = 1 THEN <<0>> ELSE <<0, NumCells - 1>>
Neighbours(c) == {n \in Cells : n = c - 1 \/ n = c + 1}
RECURSIVE SetToSeq(_)
SetToSeq(S) == IF S = {} THEN << >>
               ELSE LET m == CHOOSE a \in S : \A b \in S : a <= b
                    IN <<m>> \o SetToSeq(S \ {m})
SeqRange(q) == {q[k] : k \in 1 .. Len(q)}

InitIterVars ==
  /\ itin \in IterInputs
  /\ itpc = "begin"
  /\ tempdir = "none"
  /\ deskewCalls = << >>
  /\ dims = <<0, 0>>
  /\ opened = "none"
  /\ should_preprocess = FALSE
  /\ img = NoImage
  /\ color_img = NoImage
  /\ queue = << >>
  /\ seen = {}
  /\ cur = -1
  /\ hint = [c \in Cells |-> <<0, 0>>]
  /\ measured = NoMeasure
  /\ classifyLog = << >>
  /\ updateLog = << >>
  /\ yielded = << >>

orderVars == <<queue, seen, cur, hint>>
loopVars == <<measured, classifyLog, updateLog, yielded>>

\* Lines 110-116, deskew enabled, the deskewer returns.
DeskewReturns ==
  /\ UNCHANGED notIter
  /\ itpc = "begin"
  /\ Truthy(get_deskew_params(itin.level).deskew)
  /\ \E d \in ReportedDims :
       /\ dims' = d
       /\ should_preprocess' = PreprocessAfterDeskew(itin.force, d)
  /\ tempdir' = "created"
  /\ deskewCalls' = Append(deskewCalls,
                           [auto_dewarp |-> get_deskew_params(itin.level).auto_dewarp,
                            dst |-> "temp"])
  /\ itpc' = "open"
  /\ UNCHANGED <<itin, opened, img, color_img, orderVars, loopVars>>

\* Lines 110-115, deskew enabled, the deskewer raises.
DeskewRaises ==
  /\ UNCHANGED notIter
  /\ itpc = "begin"
  /\ Truthy(get_deskew_params(itin.level).deskew)
  /\ should_preprocess' = itin.force
  /\ tempdir' = "created"
  /\ deskewCalls' = Append(deskewCalls,
                           [auto_dewarp |-> get_deskew_params(itin.level).auto_dewarp,
                            dst |-> "temp"])
  /\ itpc' = "failed"
  /\ UNCHANGED <<itin, dims, opened, img, color_img, orderVars, loopVars>>

\* Lines 110-112 and 118, deskew disabled.
DeskewSkipped ==
  /\ UNCHANGED notIter
  /\ itpc = "begin"
  /\ ~Truthy(get_deskew_params(itin.level).deskew)
  /\ should_preprocess' = itin.force
  /\ itpc' = "open"
  /\ UNCHANGED <<itin, tempdir, deskewCalls, dims, opened, img, color_img, orderVars,
                 loopVars>>

\* Lines 117/119-125: open the colour image, choose the symbol image, build
\* the decode order.
OpenReturns ==
  /\ UNCHANGED notIter
  /\ itpc = "open"
  /\ LET file == IF Truthy(get_deskew_params(itin.level).deskew) THEN "temp" ELSE "src"
     IN /\ opened' = file
        /\ color_img' = OpenedImage(file)
        /\ img' = IF should_preprocess THEN _preprocess_for_decode(OpenedImage(file))
                  ELSE OpenedImage(file)
  /\ queue' = Corners
  /\ seen' = SeqRange(Corners)
  /\ itpc' = "fetch"
  /\ UNCHANGED <<itin, tempdir, deskewCalls, dims, should_preprocess, cur, hint, loopVars>>

\* Lines 117/119: Image.open raises.
OpenRaises ==
  /\ UNCHANGED notIter
  /\ itpc = "open"
  /\ itpc' = "failed"
  /\ UNCHANGED <<itin, tempdir, deskewCalls, dims, opened, should_preprocess, img,
                 color_img, orderVars, loopVars>>

\* Line 126: the order hands out the next cell and its drift hint.
FetchCell ==
  /\ UNCHANGED notIter
  /\ itpc = "fetch"
  /\ queue # << >>
  /\ cur' = Head(queue)
  /\ queue' = Tail(queue)
  /\ itpc' = "classify"
  /\ UNCHANGED <<itin, tempdir, deskewCalls, dims, opened, should_preprocess, img,
                 color_img, seen, hint, loopVars>>

\* Lines 126, 131-133: the order is exhausted, the directory is cleaned up.
FinishLoop ==
  /\ UNCHANGED notIter
  /\ itpc = "fetch"
  /\ queue = << >>
  /\ tempdir' = IF tempdir = "created" THEN "released" ELSE tempdir
  /\ itpc' = "done"
  /\ UNCHANGED <<itin, deskewCalls, dims, opened, should_preprocess, img, color_img,
                 orderVars, loopVars>>

\* Line 127: _decode_cell(ct, img, color_img, x, y, drift) returns.
ClassifyReturns ==
  /\ UNCHANGED notIter
  /\ itpc = "classify"
  /\ \E r \in CellResults :
       /\ measured' = r
       /\ classifyLog' = Append(classifyLog, [cell |-> cur, img |-> img,
                                              color_img |-> color_img, drift |-> hint[cur],
                                              updatesBefore |-> Len(updateLog),
                                              result |-> r])
  /\ itpc' = "update"
  /\ UNCHANGED <<itin, tempdir, deskewCalls, dims, opened, should_preprocess, img,
                 color_img, orderVars, updateLog, yielded>>

\* Line 127: _decode_cell raises.
ClassifyRaises ==
  /\ UNCHANGED notIter
  /\ itpc = "classify"
  /\ itpc' = "failed"
  /\ UNCHANGED <<itin, tempdir, deskewCalls, dims, opened, should_preprocess, img,
                 color_img, orderVars, loopVars>>

\* FloodDecodeOrder.update(dx, dy, distance): the current cell's drift is
\* refined and handed to its neighbours not yet queued.
OrderUpdate(dx, dy) ==
  LET d == <<hint[cur][1] + dx, hint[cur][2] + dy>>
      fresh == Neighbours(cur) \ seen
  IN /\ hint' = [c \in Cells |-> IF c = cur \/ c \in fresh THEN d ELSE hint[c]]
     /\ queue' = queue \o SetToSeq(fresh)
     /\ seen' = seen \cup fresh

UpdateOnlyWhenDrifted ==
  /\ UNCHANGED notIter
  /\ itpc = "update"
  /\ IF measured.dx = 0 /\ measured.dy = 0
     THEN UNCHANGED <<updateLog, hint, queue, seen>>
     ELSE /\ updateLog' = Append(updateLog, [cell |-> cur, dx |-> measured.dx,
                                             dy |-> measured.dy,
                                             distance |-> measured.distance])
          /\ OrderUpdate(measured.dx, measured.dy)
  /\ itpc' = "yield"
  /\ UNCHANGED <<itin, tempdir, deskewCalls, dims, opened, should_preprocess, img,
                 color_img, cur, measured, classifyLog, yielded>>

\* Line 128: decode_order.update(best_dx, best_dy, best_distance) returns.
UpdateReturns ==
  /\ UNCHANGED notIter
  /\ itpc = "update"
  /\ updateLog' = Append(updateLog, [cell |-> cur, dx |-> measured.dx, dy |-> measured.dy,
                                     distance |-> measured.distance])
  /\ OrderUpdate(measured.dx, measured.dy)
  /\ itpc' = "yield"
  /\ UNCHANGED <<itin, tempdir, deskewCalls, dims, opened, should_preprocess, img,
                 color_img, cur, measured, classifyLog, yielded>>

\* Line 128: update raises.
UpdateRaises ==
  /\ UNCHANGED notIter
  /\ itpc = "update"
  /\ itpc' = "failed"
  /\ UNCHANGED <<itin, tempdir, deskewCalls, dims, opened, should_preprocess, img,
                 color_img, orderVars, loopVars>>

\* Line 129: yield i, best_bits; the generator is suspended.
YieldCell ==
  /\ UNCHANGED notIter
  /\ itpc = "yield"
  /\ yielded' = Append(yielded, [i |-> cur, bits |-> measured.bits])
  /\ itpc' = "suspended"
  /\ UNCHANGED <<itin, tempdir, deskewCalls, dims, opened, should_preprocess, img,
                 color_img, orderVars, measured, classifyLog, updateLog>>

\* The consumer asks for the next item.
ConsumerNext ==
  /\ UNCHANGED notIter
  /\ itpc = "suspended"
  /\ itpc' = "fetch"
  /\ UNCHANGED <<itin, tempdir, deskewCalls, dims, opened, should_preprocess, img,
                 color_img, orderVars, loopVars>>

\* The consumer drops the iterator: GeneratorExit is raised at the yield, no
\* handler surrounds it.
ConsumerAbandons ==
  /\ UNCHANGED notIter
  /\ itpc = "suspended"
  /\ itpc' = "closed"
  /\ UNCHANGED <<itin, tempdir, deskewCalls, dims, opened, should_preprocess, img,
                 color_img, orderVars, loopVars>>

\* The TemporaryDirectory object is reclaimed some time after the generator
\* frame died without reaching line 131: its finalizer may then run.
ImplicitCleanup ==
  /\ UNCHANGED notIter
  /\ itpc \in {"failed", "closed"}
  /\ tempdir = "created"
  /\ tempdir' = "released"
  /\ UNCHANGED <<itin, itpc, deskewCalls, dims, opened, should_preprocess, img,
                 color_img, orderVars, loopVars>>

NextIter ==
  \/ DeskewReturns \/ DeskewRaises \/ DeskewSkipped
  \/ OpenReturns \/ OpenRaises
  \/ FetchCell \/ FinishLoop
  \/ ClassifyReturns \/ ClassifyRaises
  \/ UpdateReturns \/ UpdateRaises
  \/ YieldCell \/ ConsumerNext \/ ConsumerAbandons
  \/ ImplicitCleanup

\* =====================================================================
\* encode_iter / encode, then decode of the image encode() saved
\* (ecc = 0, fountain off: both streams are the plain files)
\* =====================================================================

\* Page geometries: n cells, b interleave stripes, p partitions, scaled down
\* from (12400, INTERLEAVE_BLOCKS, INTERLEAVE_PARTITIONS); as there, the
\* partitions and the blocks divide the page evenly and the page holds a
\* whole number of bytes.
Geometries ==
  {g \in [n : 1 .. MaxCells, b : 1 .. MaxStripes, p : 1 .. MaxPartitions] :
     /\ g.n % (g.b * g.p) = 0
     /\ (g.n * BITS_PER_OP) % 8 = 0}

ByteValues == {165, 255}
Payloads == UNION {[1 .. len -> ByteValues] : len \in 0 .. MaxPayload}

\* cell_positions(spacing, dim, offset): the canonical positions, row-major.
cell_positions(n) ==
  [i \in 0 .. (n - 1) |-> <<CELLS_OFFSET + CELL_SPACING * i, CELLS_OFFSET>>]

\* interleave(cells, B, P): within partition p of size S = N/P, stripe after
\* stripe, stripe s being p*S + s, p*S + s + B, ... while below (p+1)*S.
Stripe(pp, ss, S, B) ==
  LET cnt == IF ss >= S THEN 0 ELSE ((S - 1 - ss) \div B) + 1
  IN [j \in 1 .. cnt |-> pp * S + ss + (j - 1) * B]

RECURSIVE Stripes(_, _, _, _)
Stripes(pp, ss, S, B) ==
  IF ss >= B THEN << >> ELSE Stripe(pp, ss, S, B) \o Stripes(pp, ss + 1, S, B)

RECURSIVE Partitions(_, _, _, _)
Partitions(pp, P, S, B) ==
  IF pp >= P THEN << >> ELSE Stripes(pp, 0, S, B) \o Partitions(pp + 1, P, S, B)

interleave(g) == Partitions(0, g.p, g.n \div g.p, g.b)

\* interleave_reverse(cells, B, P): cell index -> stream index, and the
\* block size N / (B * P).
interleave_reverse(g) ==
  LET order == interleave(g)
  IN [lookup |-> [i \in 0 .. (g.n - 1) |->
                    IF \E k \in 1 .. Len(order) : order[k] = i
                    THEN (CHOOSE k \in 1 .. Len(order) : order[k] = i) - 1
                    ELSE -1],
      block_size |-> g.n \div (g.b * g.p)]

\* bit_file.read(): the k-th BITS_PER_OP-bit group of the byte stream, most
\* significant bit first, zeros where the stream has ended.
StreamBit(bytes, m) ==
  IF m < 8 * Len(bytes) THEN (bytes[(m \div 8) + 1] \div Pow2(7 - (m % 8))) % 2 ELSE 0

RECURSIVE GroupFrom(_, _, _)
GroupFrom(bytes, m, left) ==
  IF left = 0 THEN 0
  ELSE StreamBit(bytes, m) * Pow2(left - 1) + GroupFrom(bytes, m + 1, left - 1)

bit_file_read(bytes, k) == GroupFrom(bytes, k * BITS_PER_OP, BITS_PER_OP)

\* CimbEncoder.encode(bits): the tile of an icon and a palette colour.
ct_encode(bits) == [symbol |-> bits % Pow2(BITS_PER_SYMBOL),
                    color |-> (bits \div Pow2(BITS_PER_SYMBOL)) % Pow2(BITS_PER_COLOR)]

ct_decode_symbol_only(tile) == tile.symbol

\* What decode_iter yields for an untouched tile: best_bits + decode_color.
ct_decode(tile) == tile.symbol + decode_color(tile.color)

\* interleaved_writer at close: the groups of the blocks, block after
\* block, repacked into bytes.
RECURSIVE FlushBlocks(_, _, _)
FlushBlocks(bl, from, nblocks) ==
  IF from >= nblocks THEN << >> ELSE bl[from] \o FlushBlocks(bl, from + 1, nblocks)

GroupBit(groups, m) ==
  (groups[(m \div BITS_PER_OP) + 1] \div Pow2(BITS_PER_OP - 1 - (m % BITS_PER_OP))) % 2

RECURSIVE ByteFrom(_, _, _)
ByteFrom(groups, m, left) ==
  IF left = 0 THEN 0
  ELSE GroupBit(groups, m) * Pow2(left - 1) + ByteFrom(groups, m + 1, left - 1)

PackBytes(groups) ==
  [j \in 1 .. ((Len(groups) * BITS_PER_OP) \div 8) |-> ByteFrom(groups, (j - 1) * 8, 8)]

NumBlocks(g) == g.b * g.p
Blank == [symbol |-> -1, color |-> -1]

InitCodecVars ==
  /\ cdin \in [payload : Payloads, geom : Geometries]
  /\ cdpc = "template"
  /\ canvasSize = <<0, 0>>
  /\ tiles = [i \in 0 .. (cdin.geom.n - 1) |-> Blank]
  /\ emitted = << >>
  /\ wrotePos = [i \in 0 .. (cdin.geom.n - 1) |-> -1]
  /\ decoding = << >>
  /\ widx = 0
  /\ blocks = [k \in 0 .. (NumBlocks(cdin.geom) - 1) |-> << >>]
  /\ blockOf = [i \in 0 .. (cdin.geom.n - 1) |-> -1]
  /\ output = << >>

\* _get_image_template(width, dark): Image.new('RGB', (width, width)).
_get_image_template(width) == <<width, width>>

\* encode(), lines 193-194.
EncodeTemplate ==
  /\ UNCHANGED notCodec
  /\ cdpc = "template"
  /\ canvasSize' = _get_image_template(TOTAL_SIZE)
  /\ cdpc' = "encode"
  /\ UNCHANGED <<cdin, tiles, emitted, wrotePos, decoding, widx, blocks, blockOf, output>>

EncodeWhileData(k, g, payload) == k < g.n /\ k * BITS_PER_OP < 8 * Len(payload)

\* Whether the loop of encode_iter has a k-th (from 0) cell to emit: it runs
\* over all of interleave(cells, ...), whatever the stream holds.
EncodeHasCell(k, g, payload) == k < Len(interleave(g))

\* One turn of encode_iter's loop and of encode's: read a group, yield it
\* with the cell position, paste the tile there.
EncodeCell ==
  /\ UNCHANGED notCodec
  /\ cdpc = "encode"
  /\ EncodeHasCell(Len(emitted), cdin.geom, cdin.payload)
  /\ LET k == Len(emitted)
         cell == interleave(cdin.geom)[k + 1]
         bits == bit_file_read(cdin.payload, k)
         xy == cell_positions(cdin.geom.n)[cell]
     IN /\ emitted' = Append(emitted, [bits |-> bits, x |-> xy[1], y |-> xy[2]])
        /\ tiles' = [tiles EXCEPT ![cell] = ct_encode(bits)]
        /\ wrotePos' = [wrotePos EXCEPT ![cell] = k]
  /\ UNCHANGED <<cdin, cdpc, canvasSize, decoding, widx, blocks, blockOf, output>>

\* encode(), line 198: the loop is over, the image is saved.
EncodeSave ==
  /\ UNCHANGED notCodec
  /\ cdpc = "encode"
  /\ ~EncodeHasCell(Len(emitted), cdin.geom, cdin.payload)
  /\ cdpc' = "saved"
  /\ UNCHANGED <<cdin, canvasSize, tiles, emitted, wrotePos, decoding, widx, blocks,
                 blockOf, output>>

\* decode(), line 145: the dictionary of all the cells decode_iter yields
\* from the saved image; cells never pasted decode as the background.
DecodeCollect ==
  /\ UNCHANGED notCodec
  /\ cdpc = "saved"
  /\ decoding' = [k \in 1 .. cdin.geom.n |->
                    [i |-> k - 1,
                     bits |-> IF tiles[k - 1] = Blank THEN 0 ELSE ct_decode(tiles[k - 1])]]
  /\ widx' = 0
  /\ cdpc' = "write"
  /\ UNCHANGED <<cdin, canvasSize, tiles, emitted, wrotePos, blocks, blockOf, output>>

DecodeBlockByCell(i, g) == i \div interleave_reverse(g).block_size

\* decode(), line 147: the block of cell i.
DecodeBlock(i, g) == interleave_reverse(g).lookup[i] \div interleave_reverse(g).block_size

\* decode(), lines 146-148: one turn of the loop over sorted(decoding.items()).
DecodeWrite ==
  /\ UNCHANGED notCodec
  /\ cdpc = "write"
  /\ widx < Len(decoding)
  /\ LET i == decoding[widx + 1].i
         bits == decoding[widx + 1].bits
         block == DecodeBlock(i, cdin.geom)
     IN /\ blocks' = [blocks EXCEPT ![block] = Append(@, bits)]
        /\ blockOf' = [blockOf EXCEPT ![i] = block]
  /\ widx' = widx + 1
  /\ UNCHANGED <<cdin, cdpc, canvasSize, tiles, emitted, wrotePos, decoding, output>>

\* decode(), line 144: leaving the with block closes the writer and the
\* output file.
DecodeClose ==
  /\ UNCHANGED notCodec
  /\ cdpc = "write"
  /\ widx = Len(decoding)
  /\ output' = PackBytes(FlushBlocks(blocks, 0, NumBlocks(cdin.geom)))
  /\ cdpc' = "closed"
  /\ UNCHANGED <<cdin, canvasSize, tiles, emitted, wrotePos, decoding, widx, blocks,
                 blockOf>>

NextCodec ==
  \/ EncodeTemplate \/ EncodeCell \/ EncodeSave
  \/ DecodeCollect \/ DecodeWrite \/ DecodeClose

\* =====================================================================
\* kmeans(data, columns, num_clusters) and kmeans.update()
\* =====================================================================
\* Points have two coordinates here; a centre is kept as the coordinate sums
\* and the number of the rows it averages, so that means stay exact.
PointValues == {<<0, 0>>, <<0, 4>>, <<6, 0>>}

KmInputs ==
  {i \in [num_clusters : 1 .. MaxClusters,
          data : UNION {[1 .. len -> PointValues] : len \in 1 .. MaxPoints}] :
     Len(i.data) >= i.num_clusters}

\* dist(x, y) between a row and a centre, times the square of the centre's
\* row count.
distNum(point, center) ==
  (point[1] * center.cnt - center.sum[1]) * (point[1] * center.cnt - center.sum[1])
  + (point[2] * center.cnt - center.sum[2]) * (point[2] * center.cnt - center.sum[2])

\* dist(point, a) <= dist(point, b)
distLeq(point, a, b) ==
  distNum(point, a) * b.cnt * b.cnt <= distNum(point, b) * a.cnt * a.cnt

\* recompute_cluster_labels(data, centers): distances.index(min(distances)),
\* the first centre at minimal distance, counted from 0.
recompute_cluster_labels(data, cs) ==
  [r \in 1 .. Len(data) |->
     (CHOOSE a \in 1 .. Len(cs) :
        /\ \A b \in 1 .. Len(cs) : distLeq(data[r], cs[a], cs[b])
        /\ \A b \in 1 .. (a - 1) : ~distLeq(data[r], cs[b], cs[a])) - 1]

\* df.sample(num_clusters): num_clusters different rows, in any order.
Samples(len, k) ==
  {q \in [1 .. k -> 1 .. len] : \A a, b \in 1 .. k : q[a] = q[b] => a = b}

RECURSIVE SumRows(_, _, _, _)
SumRows(data, lab, l, r) ==
  IF r = 0 THEN [sum |-> <<0, 0>>, cnt |-> 0]
  ELSE LET rest == SumRows(data, lab, l, r - 1)
       IN IF lab[r] = l
          THEN [sum |-> <<rest.sum[1] + data[r][1], rest.sum[2] + data[r][2]>>,
                cnt |-> rest.cnt + 1]
          ELSE rest

\* df.groupby(labels).mean(): one row per label in use, in label order.
GroupMeans(data, lab) ==
  LET used == SetToSeq({lab[r] : r \in 1 .. Len(data)})
  IN [k \in 1 .. Len(used) |-> SumRows(data, lab, used[k], Len(data))]

InitKmVars ==
  /\ kin \in KmInputs
  /\ kpc = "new"
  /\ centers = << >>
  /\ labels = << >>
  /\ nupdates = 0

\* kmeans.__init__
KmeansInit ==
  /\ UNCHANGED notKm
  /\ kpc = "new"
  /\ \E q \in Samples(Len(kin.data), kin.num_clusters) :
       LET cs == [k \in 1 .. kin.num_clusters |-> [sum |-> kin.data[q[k]], cnt |-> 1]]
       IN /\ centers' = cs
          /\ labels' = recompute_cluster_labels(kin.data, cs)
  /\ kpc' = "ready"
  /\ UNCHANGED <<kin, nupdates>>

\* kmeans.update
KmeansUpdate ==
  /\ UNCHANGED notKm
  /\ kpc = "ready"
  /\ nupdates < MaxUpdates
  /\ LET cs == GroupMeans(kin.data, labels)
     IN /\ centers' = cs
        /\ labels' = recompute_cluster_labels(kin.data, cs)
  /\ nupdates' = nupdates + 1
  /\ UNCHANGED <<kin, kpc>>

NextKm == KmeansInit \/ KmeansUpdate

\* =====================================================================
\* specifications
\* =====================================================================
IdleCell ==
  /\ cellpc = "idle" /\ cin = [x |-> 0, y |-> 0, driftx |-> 0, drifty |-> 0, pairs |-> << >>]
  /\ tried = 0 /\ readings = << >> /\ best_distance = 1000 /\ best_bits = 0
  /\ best_dx = 0 /\ best_dy = 0 /\ best_bound = FALSE /\ cret = NoResult

IdleIter ==
  /\ itin = [level |-> 0, force |-> FALSE] /\ itpc = "idle" /\ tempdir = "none"
  /\ deskewCalls = << >> /\ dims = <<0, 0>> /\ opened = "none"
  /\ should_preprocess = FALSE /\ img = NoImage /\ color_img = NoImage
  /\ queue = << >> /\ seen = {} /\ cur = -1 /\ hint = [c \in Cells |-> <<0, 0>>]
  /\ measured = NoMeasure /\ classifyLog = << >> /\ updateLog = << >>
  /\ yielded = << >>

IdleCodec ==
  /\ cdin = [payload |-> << >>, geom |-> [n |-> 0, b |-> 1, p |-> 1]] /\ cdpc = "idle"
  /\ canvasSize = <<0, 0>> /\ tiles = << >> /\ emitted = << >> /\ wrotePos = << >>
  /\ decoding = << >> /\ widx = 0 /\ blocks = << >> /\ blockOf = << >> /\ output = << >>

IdleKm ==
  /\ kin = [num_clusters |-> 1, data |-> << >>] /\ kpc = "idle" /\ centers = << >>
  /\ labels = << >> /\ nupdates = 0

NextCell == DecodeCellStep \/ DecodeCellReturn

InitCell == InitCellVars /\ IdleIter /\ IdleCodec /\ IdleKm
SpecCell == InitCell /\ [][NextCell]_vars

InitIter == InitIterVars /\ IdleCell /\ IdleCodec /\ IdleKm
SpecIter == InitIter /\ [][NextIter]_vars

InitCodec == InitCodecVars /\ IdleCell /\ IdleIter /\ IdleKm
SpecCodec == InitCodec /\ [][NextCodec]_vars

InitKm == InitKmVars /\ IdleCell /\ IdleIter /\ IdleCodec
SpecKm == InitKm /\ [][NextKm]_vars

\* =====================================================================
\* properties
\* =====================================================================

RECURSIVE MinDistance(_)
MinDistance(rs) == IF Len(rs) = 1 THEN rs[1].distance
                   ELSE Min2(rs[1].distance, MinDistance(Tail(rs)))

\* C7: _decode_cell tries the offsets of drift.pairs in list order, stops
\* after the first offset whose distance is below 8, never fails to return,
\* and returns the minimum distance over the offsets tried together with
\* the (dx, dy) and symbol bits of a tried offset attaining it.
C7_DriftSearch ==
  cellpc # "idle" =>
    /\ tried = Len(readings) /\ tried <= Len(cin.pairs)
    /\ \A j \in 1 .. tried :
         /\ <<readings[j].dx, readings[j].dy>> = cin.pairs[j]
         /\ j < tried => readings[j].distance >= 8
    /\ cellpc \in {"crop", "returned"} =>
         (tried = Len(cin.pairs) \/ readings[tried].distance < 8)
    /\ cellpc # "raised"
    /\ cellpc = "returned" =>
         /\ cret.distance = MinDistance(readings)
         /\ \E j \in 1 .. tried :
              /\ readings[j].distance = cret.distance
              /\ cin.pairs[j] = <<cret.dx, cret.dy>>
              /\ cret.bits % Pow2(BITS_PER_SYMBOL) = readings[j].bits

\* A search that went through two offsets without an early exit and
\* returned the first one's measurement.
C7_Witness ==
  /\ cellpc = "returned" /\ tried = 2 /\ Len(cin.pairs) = 2
  /\ readings[1].distance = 8 /\ readings[2].distance = 9
  /\ cret.distance = 8 /\ <<cret.dx, cret.dy>> = cin.pairs[1]

\* C8: the colour patch is the winning cell square inset by one pixel on
\* each of its four sides, a (CELL_SIZE-2) x (CELL_SIZE-2) square from
\* (testX+1, testY+1) to (testX+CELL_SIZE-1, testY+CELL_SIZE-1), cropped
\* from the unprocessed colour image.
C8_ColorPatchInset ==
  cellpc = "returned" =>
    LET testX == cin.x + cin.driftx + cret.dx
        testY == cin.y + cin.drifty + cret.dy
    IN /\ cret.box = <<testX + 1, testY + 1, testX + CELL_SIZE - 1, testY + CELL_SIZE - 1>>
       /\ BoxWidth(cret.box) = CELL_SIZE - 2
       /\ BoxHeight(cret.box) = CELL_SIZE - 2
       /\ cret.cropped = "color_img"

\* C2: once a decode has ended, normally, by an error or by the consumer
\* dropping the iterator, the temporary directory it created is released.
C2_TempdirReleased ==
  itpc \in {"done", "failed", "closed"} => tempdir # "created"

\* C5: the symbol image given to _decode_cell is sharpened exactly when
\* force_preprocess is set or the deskewer ran and reported a width or a
\* height below TOTAL_SIZE; the colour image is never sharpened.
C5_PreprocessCondition ==
  \A k \in 1 .. Len(classifyLog) :
    /\ classifyLog[k].img.sharpened <=>
         (itin.force \/ (itin.level >= 1 /\ (dims[1] < TOTAL_SIZE \/ dims[2] < TOTAL_SIZE)))
    /\ ~classifyLog[k].color_img.sharpened

\* A cell classified on a sharpened image only because the warped image
\* came out short.
C5_Witness ==
  /\ Len(classifyLog) >= 1 /\ ~itin.force /\ itin.level >= 1
  /\ dims[1] = TOTAL_SIZE /\ dims[2] < TOTAL_SIZE
  /\ classifyLog[1].img.sharpened

\* C6: at deskew level 0 the deskewer is never invoked, no temporary
\* directory exists and the source image itself is read; at level 1 the
\* deskewer is invoked exactly once with auto_dewarp false, at level 2
\* exactly once with auto_dewarp true.
C6_DeskewLevels ==
  itpc # "idle" =>
    /\ itin.level = 0 =>
         /\ deskewCalls = << >> /\ tempdir = "none"
         /\ opened \in {"none", "src"}
         /\ itpc \notin {"begin", "open"} /\ itpc # "failed" => opened = "src"
    /\ itin.level >= 1 =>
         /\ Len(deskewCalls) = (IF itpc = "begin" THEN 0 ELSE 1)
         /\ \A k \in 1 .. Len(deskewCalls) :
              deskewCalls[k].auto_dewarp = (itin.level = 2)
         /\ opened \in {"none", "temp"}

\* A complete decode at level 1: one homography-only deskew.
C6_Witness ==
  /\ itpc = "done" /\ itin.level = 1
  /\ Len(deskewCalls) = 1 /\ ~deskewCalls[1].auto_dewarp

\* C9: every cell the order emitted is classified and then given exactly
\* one update carrying the values measured for it, before the next cell is
\* requested and before anything is yielded for it.
C9_UpdateBeforeNext ==
  /\ Len(updateLog) <= Len(classifyLog) /\ Len(classifyLog) <= Len(updateLog) + 1
  /\ itpc \in {"fetch", "classify", "yield", "suspended", "done", "closed"} =>
       Len(updateLog) = Len(classifyLog)
  /\ \A k \in 1 .. Len(classifyLog) : classifyLog[k].updatesBefore = k - 1
  /\ \A k \in 1 .. Len(updateLog) :
       /\ updateLog[k].cell = classifyLog[k].cell
       /\ updateLog[k].dx = classifyLog[k].result.dx
       /\ updateLog[k].dy = classifyLog[k].result.dy
       /\ updateLog[k].distance = classifyLog[k].result.distance
       /\ \A m \in 1 .. Len(updateLog) : updateLog[m].cell = updateLog[k].cell => m = k
  /\ Len(yielded) <= Len(updateLog)
  /\ \A k \in 1 .. Len(yielded) : yielded[k].i = updateLog[k].cell

\* All cells decoded, the consumer having resumed the iterator each time,
\* with a cell that measured no drift among them.
C9_Witness ==
  /\ itpc = "done" /\ Len(yielded) = NumCells /\ Len(updateLog) = NumCells
  /\ \E k \in 1 .. NumCells : updateLog[k].dx = 0
  /\ \E k \in 1 .. NumCells : updateLog[k].dx # 0

PageBytes(g) == (g.n * BITS_PER_OP) \div 8

C4_FullPage ==
  cdpc \notin {"idle", "template"} =>
    /\ canvasSize = <<TOTAL_SIZE, TOTAL_SIZE>>
    /\ Len(emitted) <= cdin.geom.n
    /\ cdpc # "encode" => Len(emitted) = cdin.geom.n
    /\ \A k \in 1 .. Len(emitted) :
         /\ emitted[k].bits \in 0 .. (Pow2(BITS_PER_OP) - 1)
         /\ <<emitted[k].x, emitted[k].y>> =
              cell_positions(cdin.geom.n)[interleave(cdin.geom)[k]]
         /\ \A m \in 1 .. Len(emitted) :
              (emitted[m].x = emitted[k].x /\ emitted[m].y = emitted[k].y) => m = k
         /\ (k - 1) * BITS_PER_OP >= 8 * Len(cdin.payload) => emitted[k].bits = 0

\* A page saved from a payload that ends inside the page, its last cell
\* being padding.
C4_Witness ==
  /\ cdpc = "saved" /\ cdin.geom.n = 8 /\ Len(cdin.payload) = 2
  /\ Len(emitted) = 8 /\ emitted[8].bits = 0 /\ emitted[1].bits # 0

\* C3: interleave visits every cell index exactly once, interleave_reverse
\* maps the cell at stream position k back to k, and the block decode()
\* computes for a cell is the block of the stream position at which
\* encode_iter wrote it.
C3_InterleaveInverse ==
  cdpc # "idle" =>
    LET g == cdin.geom
        order == interleave(g)
        rev == interleave_reverse(g)
    IN /\ Len(order) = g.n
       /\ \A i \in 0 .. (g.n - 1) :
            Cardinality({k \in 1 .. Len(order) : order[k] = i}) = 1
       /\ \A k \in 1 .. Len(order) : rev.lookup[order[k]] = k - 1
       /\ \A i \in 0 .. (g.n - 1) :
            blockOf[i] # -1 =>
              /\ wrotePos[i] # -1
              /\ blockOf[i] = wrotePos[i] \div rev.block_size

\* A page of two partitions and two stripes decoded to the end: cell 1 was
\* written at stream position 2 and lands in block 1.
C3_Witness ==
  /\ cdpc = "closed" /\ cdin.geom = [n |-> 8, b |-> 2, p |-> 2]
  /\ wrotePos[1] = 2 /\ blockOf[1] = 1 /\ blockOf[6] = 2

\* C10: after construction and after any number of update() calls the
\* object holds exactly num_clusters centroids, and every label is the
\* index of one of them.
C10_ClusterCount ==
  kpc = "ready" =>
    /\ Len(centers) = kin.num_clusters
    /\ \A r \in 1 .. Len(labels) : labels[r] \in 0 .. (Len(centers) - 1)

====
